---- MODULE Spec2Model ----
(***************************************************************************)
(* State-machine model of the activation-scheduled chat coordinator         *)
(* (dev/chat_coordinator_claude.py) of calmmage/realistic-ai-bot.           *)
(*                                                                         *)
(* Time is counted in half-second ticks: the 1.0 s activation delay and    *)
(* the 1 s sweep interval are 2 ticks each, so that two messages can       *)
(* arrive strictly inside one debounce window at different times.          *)
(* Every action is one run of a handler between two suspension points of   *)
(* the asyncio event loop (awaiting the next chunk of the generator,       *)
(* awaiting a send).  asyncio.Queue.get on a non-empty queue and put on an *)
(* unbounded queue do not suspend.                                         *)
(*                                                                         *)
(* The prototype coordinator (dev/chat_coordinator/                        *)
(* chat_coordinator_prototype.py) is modelled beside it with variables of  *)
(* its own and a clock of whole seconds; its handlers are plain functions  *)
(* and run without suspension.                                             *)
(*                                                                         *)
(* App.send_messages (src/app.py), the delivery path of the chat handler,  *)
(* is modelled as one call that sleeps and sends on the clock of the       *)
(* coordinator, beside the plan _schedule_message_sending makes for the    *)
(* same response.                                                          *)
(*                                                                         *)
(* App.split_message is a pure function: a text is a sequence of           *)
(* characters, of which only the newline matters to the splitter, and the  *)
(* function is applied once to an input drawn in the initial state.        *)
(***************************************************************************)
EXTENDS Integers, Sequences, FiniteSets, TLC

\* ---------------------------------------------------------------- bounds
NumUsers == 2
MaxTime == 3
MaxMsgs == 2
MaxParts == 3
MaxChunks == 1
MaxDelay == 1
ProtoMaxTime == 7
ProtoMaxMsgs == 3
MaxText == 8
MaxMin == 3
DefaultMin == 1

\* ------------------------------------------------------ program constants
ActivationDelay == 2
SweepInterval == 2
input_buffer == 5
ResponseDelay == 1
LotResponseDelay == 2
LotThreshold == 5

Users == 1..NumUsers

\* The default of AppConfig.model.
DefaultModel == "claude-3-5-haiku"

\* The configurations of the App instance the coordinator is constructed with.
Configs ==
    { [delay_mode |-> "simple", delay_before_first_message |-> 0,
       delay_simple |-> MaxDelay, delay_random_min |-> 0,
       delay_random_max |-> MaxDelay, reply_mode |-> "answer",
       splitter_mode |-> "simple_improved",
       splitter_min_message_length |-> DefaultMin,
       model |-> DefaultModel],
      [delay_mode |-> "random", delay_before_first_message |-> 0,
       delay_simple |-> MaxDelay, delay_random_min |-> 0,
       delay_random_max |-> MaxDelay, reply_mode |-> "reply",
       splitter_mode |-> "simple_improved",
       splitter_min_message_length |-> DefaultMin,
       model |-> DefaultModel],
      [delay_mode |-> "none", delay_before_first_message |-> MaxDelay,
       delay_simple |-> MaxDelay, delay_random_min |-> 0,
       delay_random_max |-> MaxDelay, reply_mode |-> "answer",
       splitter_mode |-> "simple_improved",
       splitter_min_message_length |-> DefaultMin,
       model |-> DefaultModel] }

VARIABLES
    now,                  \* time.time(), in ticks
    app,                  \* self.app: the delay and reply configuration
    running,              \* self.running
    next_sweep,           \* next run time of job "process_outgoing_queue", -1 when not registered
    jobs,                 \* pending date jobs of self.scheduler (activation events)
    user_order,           \* keys of self.user_states in insertion order
    incoming,             \* UserState.incoming_message_queue per user
    outgoing,             \* UserState.outgoing_message_queue per user
    is_processing,        \* UserState.is_processing per user
    last_activation_time, \* UserState.last_activation_time per user
    procs,                \* suspended runs of _process_user_incoming_messages
    sweep,                \* the suspended run of _process_all_outgoing_queues
    next_mid,             \* message_id of the next incoming message
    gen_calls,            \* per user, the app.generate_response calls made so far and how each ended
    sent,                 \* per user, the _send_message calls made so far
    arrived,              \* per user, the messages handle_incoming_message accepted
    interrupted,          \* contents of the parts that were unsent when a message of their user arrived
    proto_now,            \* prototype: datetime.now(), in seconds
    input_messages,       \* prototype: self.input_messages
    input_jobs,           \* prototype: pending handle_input_message jobs of self.scheduler
    output_jobs,          \* prototype: pending handle_output_message jobs of self.scheduler
    processed,            \* prototype: the batches _process_messages was called with
    delivered,            \* prototype: the output_callback calls made so far
    send_call,            \* App.send_messages: position of the call
    app_log,              \* App.send_messages: the sleeps and sends made so far
    planned,              \* the parts _schedule_message_sending planned for the response
    split_in,             \* App.split_message: the text, splitter_mode and splitter_min_message_length
    split_out,            \* App.split_message: what the call returned or raised
    chat,                 \* chat_handler: the position of the handler and the calls it has made
    last_set              \* the last assignment to a property of App and how it ended

vars == <<now, app, running, next_sweep, jobs, user_order, incoming, outgoing,
          is_processing, last_activation_time, procs, sweep, next_mid,
          gen_calls, sent, arrived, interrupted>>

\* The variables of the prototype coordinator.
proto_vars == <<proto_now, input_messages, input_jobs, output_jobs, processed,
                delivered>>

\* The variables of the delivery of one response.
delivery_vars == <<send_call, app_log, planned>>

\* The variables of one call of App.split_message.
split_vars == <<split_in, split_out>>

\* The variables of the handlers of the router and of the settings of App.
handler_vars == <<chat, last_set>>

\* The variables the handlers of ChatCoordinator do not touch.
outside_coordinator == <<proto_vars, delivery_vars, split_vars, handler_vars>>

\* The variables the handlers of the prototype do not touch.
outside_prototype == <<vars, delivery_vars, split_vars, handler_vars>>

\* The variables App.send_messages and the planning of one response do not
\* touch.
outside_delivery == <<vars, proto_vars, split_vars, handler_vars>>

\* The variables App.split_message does not touch.
outside_split == <<vars, proto_vars, delivery_vars, handler_vars>>

Range(s) == {s[i] : i \in DOMAIN s}

Max(a, b) == IF a >= b THEN a ELSE b

NoSweep == [active |-> FALSE, idx |-> 0, size |-> 0, to_send |-> <<>>,
            error |-> "none"]

\* The values of DelayMode.
DelayModes == {"none", "simple", "random", "structured"}

\* The values of ReplyMode.
ReplyModes == {"answer", "reply"}

\* The configurations a response is delivered under.
DeliveryConfigs ==
    [delay_mode : DelayModes,
     delay_before_first_message : {0, MaxDelay},
     delay_simple : {MaxDelay}, delay_random_min : {0},
     delay_random_max : {MaxDelay}, reply_mode : ReplyModes,
     splitter_mode : {"simple_improved"},
     splitter_min_message_length : {DefaultMin},
     model : {DefaultModel}]

\* The coordinator after construction with an App of one of the
\* configurations cfgs.
CoordInitWith(cfgs) ==
    /\ now = 0
    /\ app \in cfgs
    /\ running = FALSE
    /\ next_sweep = -1
    /\ jobs = {}
    /\ user_order = <<>>
    /\ incoming = [u \in Users |-> <<>>]
    /\ outgoing = [u \in Users |-> <<>>]
    /\ is_processing = [u \in Users |-> FALSE]
    /\ last_activation_time = [u \in Users |-> 0]
    /\ procs = {}
    /\ sweep = NoSweep
    /\ next_mid = 1
    /\ gen_calls = [u \in Users |-> <<>>]
    /\ sent = [u \in Users |-> <<>>]
    /\ arrived = [u \in Users |-> <<>>]
    /\ interrupted = {}

\* The prototype coordinator after construction.
ProtoInit ==
    /\ proto_now = 0
    /\ input_messages = <<>>
    /\ input_jobs = {}
    /\ output_jobs = {}
    /\ processed = <<>>
    /\ delivered = <<>>

CoordInit == CoordInitWith(Configs)

NoCall == [pc |-> "idle", n |-> 0, i |-> 0, wake |-> 0, started |-> 0,
           mode |-> "none", error |-> "none"]

NoPlan == [at |-> -1, parts |-> <<>>]

\* No response has been delivered yet.
DeliveryInit ==
    /\ send_call = NoCall
    /\ app_log = <<>>
    /\ planned = NoPlan

NoResult == [returned |-> FALSE, parts |-> <<>>, error |-> "none"]

\* The input of split_message when the function is not under study: the empty
\* text under the default mode.
SplitIdle == [text |-> <<>>, mode |-> "simple_improved", min |-> 0]

\* split_message has not been called.
SplitInit ==
    /\ split_in = SplitIdle
    /\ split_out = NoResult

\* chat_handler has not been called.
NoChat == [pc |-> "idle", message |-> <<>>, generate_calls |-> <<>>,
           chunks |-> <<>>, result |-> <<>>, split_calls |-> <<>>,
           send_calls |-> <<>>, error |-> "none"]

\* No property of App has been assigned to.
NoSet == [property |-> "none", value |-> "None", stored |-> "None",
          error |-> "none"]

\* No handler of the router has run and no property has been set.
HandlerInit ==
    /\ chat = NoChat
    /\ last_set = NoSet

Init == CoordInit /\ ProtoInit /\ DeliveryInit /\ SplitInit /\ HandlerInit

\* ------------------------------------------------------------- helpers

\* _get_user_state: the UserState of a user is created on first use.
get_user_state(order, u) ==
    IF u \in Range(order) THEN order ELSE Append(order, u)

\* job_id = f"{activation_type}_{user_id}_{activation_time}"
job_id(j) == <<j.event_type, j.user_id, j.timestamp>>

\* add_job that keeps a pending job with the same id
add_job_keep_existing(js, j) == js \cup {j}

\* scheduler.add_job(..., id=job_id, replace_existing=True)
add_job(js, j) == {k \in js : job_id(k) # job_id(j)} \cup {j}

\* schedule_activation
schedule_activation(js, activation_time, activation_type, u, data) ==
    LET delay == Max(0, activation_time - now)
        event == [timestamp |-> activation_time, event_type |-> activation_type,
                  user_id |-> u, data |-> data, run_date |-> now + delay]
    IN  add_job(js, event)

\* The dequeue loop of _process_user_outgoing_queue: parts are taken from the
\* head while they are due; the first part that is not due is put back, which
\* appends it to the tail of the queue, and the loop stops.
RECURSIVE TakeDue(_, _)
TakeDue(q, t) ==
    IF q = <<>> THEN [to_send |-> <<>>, queue |-> <<>>]
    ELSE IF Head(q).timestamp <= t
         THEN LET r == TakeDue(Tail(q), t)
              IN  [to_send |-> <<Head(q)>> \o r.to_send, queue |-> r.queue]
         ELSE [to_send |-> <<>>, queue |-> Append(Tail(q), Head(q))]

\* the due parts read without being removed from the queue
process_user_outgoing_queue_Peek(q, t) ==
    [to_send |-> TakeDue(q, t).to_send, queue |-> q]

\* every queued part taken, due or not
process_user_outgoing_queue_All(q, t) == [to_send |-> q, queue |-> <<>>]

\* _process_user_outgoing_queue up to its first send.
process_user_outgoing_queue(q, t) ==
    IF q = <<>> THEN [to_send |-> <<>>, queue |-> q] ELSE TakeDue(q, t)

\* The planned send time of part i: now + delay_before_first_message plus the
\* delays chosen after the parts before it.
RECURSIVE SendTime(_, _, _)
SendTime(start, d, i) ==
    IF i = 1 THEN start ELSE SendTime(start, d, i - 1) + d[i - 1]

\* every inter-part delay taken as twice delay_simple
DelayChoices_Doubled(cfg) == {2 * cfg.delay_simple}

\* The delay added after a part that is not the last one.
DelayChoices(cfg) ==
    IF cfg.delay_mode = "simple" THEN {cfg.delay_simple}
    ELSE IF cfg.delay_mode = "random"
         THEN cfg.delay_random_min .. cfg.delay_random_max
         ELSE {0}

\* The OutgoingMessage built for part i of the response to original_message.
OutgoingMessage(cfg, original_message, u, i, send_time) ==
    [timestamp |-> send_time,
     content |-> <<original_message.message_id, i>>,
     chat_id |-> original_message.chat_id,
     user_id |-> u,
     reply_to_message_id |->
         IF i = 1 /\ cfg.reply_mode = "reply"
         THEN original_message.message_id ELSE 0,
     is_reply |-> cfg.reply_mode = "reply"]

\* The parts _schedule_message_sending puts into the outgoing queue, in order.
ScheduledParts(cfg, original_message, u, n, d) ==
    [i \in 1..n |->
        OutgoingMessage(cfg, original_message, u, i,
                        SendTime(now + cfg.delay_before_first_message, d, i))]

\* The interval trigger: the first run time on the job's grid after t.
NextRun(first, t) ==
    IF t < first THEN first
    ELSE first + SweepInterval * (((t - first) \div SweepInterval) + 1)

\* The loop of _process_all_outgoing_queues from the i-th user on, up to the
\* first send.
RECURSIVE SweepFrom(_, _, _)
SweepFrom(out, order, i) ==
    IF i > Len(order) THEN [out |-> out, idx |-> i, to_send |-> <<>>]
    ELSE LET u == order[i]
             r == process_user_outgoing_queue(out[u], now)
             out2 == [out EXCEPT ![u] = r.queue]
         IN  IF r.to_send # <<>>
             THEN [out |-> out2, idx |-> i, to_send |-> r.to_send]
             ELSE SweepFrom(out2, order, i + 1)

\* The tests at the head of _process_user_incoming_messages.
IncomingEmpty(u) == incoming[u] = <<>>

\* the is_processing test left out
AlreadyProcessing_Unchecked(u) == FALSE

AlreadyProcessing(u) == is_processing[u]

\* the flag not cleared on exit
ClearProcessing_Forgotten(flags, u) == flags

\* the flag of every user cleared on exit
ClearProcessing_Everyone(flags, u) == [v \in DOMAIN flags |-> FALSE]

\* The finally clause of _process_user_incoming_messages.

ClearProcessing(flags, u) == [flags EXCEPT ![u] = FALSE]

ProcsOf(u) == {p \in procs : p.user = u}

\* The parts of a user that are planned and not yet handed to the sender: those
\* in the outgoing queue and those a suspended run has taken from it.
Pending(u) ==
    Range(outgoing[u])
        \cup UNION {Range(p.to_send) : p \in ProcsOf(u)}
        \cup {q \in Range(sweep.to_send) : q.user_id = u}

\* ------------------------------------------------------------- actions

\* time passes
Tick ==
    /\ now < MaxTime
    /\ now' = now + 1
    /\ UNCHANGED <<app, arrived, interrupted, running, next_sweep, jobs, user_order, incoming,
                   outgoing, is_processing, last_activation_time, procs, sweep,
                   next_mid, gen_calls, sent>>
    /\ UNCHANGED outside_coordinator

\* the test of self.running left out of start()
AlreadyRunning_Unchecked == FALSE

\* The test at the head of start().
AlreadyRunning == running

\* start()
Start ==
    /\ IF AlreadyRunning
       THEN /\ UNCHANGED <<running, next_sweep>>
       ELSE /\ running' = TRUE
            /\ next_sweep' = now + SweepInterval
    /\ UNCHANGED <<now, app, arrived, interrupted, jobs, user_order, incoming, outgoing,
                   is_processing, last_activation_time, procs, sweep, next_mid,
                   gen_calls, sent>>
    /\ UNCHANGED outside_coordinator

\* stop()
Stop ==
    /\ IF ~running
       THEN /\ UNCHANGED <<running, next_sweep>>
       ELSE /\ running' = FALSE
            /\ next_sweep' = -1
    /\ UNCHANGED <<now, app, arrived, interrupted, jobs, user_order, incoming, outgoing,
                   is_processing, last_activation_time, procs, sweep, next_mid,
                   gen_calls, sent>>
    /\ UNCHANGED outside_coordinator

\* handle_incoming_message(message)
handle_incoming_message(u, has_from, has_text) ==
    /\ next_mid <= MaxMsgs
    /\ next_mid' = next_mid + 1
    /\ IF ~has_from
       THEN /\ UNCHANGED <<user_order, incoming, jobs, arrived, interrupted>>
       ELSE LET message == [message_id |-> next_mid, from_user |-> u,
                            chat_id |-> u, has_text |-> has_text, date |-> now]
            IN  /\ user_order' = get_user_state(user_order, u)
                /\ incoming' = [incoming EXCEPT ![u] = Append(@, message)]
                /\ jobs' = schedule_activation(jobs, now + ActivationDelay,
                               "process_incoming", u,
                               [message_id |-> message.message_id,
                                chat_id |-> message.chat_id])
                /\ arrived' = [arrived EXCEPT ![u] = Append(@, message)]
                /\ interrupted' = interrupted \cup
                       {q.content : q \in Pending(u)}
    /\ UNCHANGED <<now, app, running, next_sweep, outgoing, is_processing,
                   last_activation_time, procs, sweep, gen_calls, sent>>
    /\ UNCHANGED outside_coordinator

\* _process_user_incoming_messages up to its first suspension point
process_user_incoming_messages(u) ==
    IF IncomingEmpty(u)
    THEN /\ UNCHANGED <<incoming, is_processing, procs, gen_calls>>
    ELSE IF AlreadyProcessing(u)
    THEN /\ UNCHANGED <<incoming, is_processing, procs, gen_calls>>
    ELSE LET message == Head(incoming[u])
         IN  /\ incoming' = [incoming EXCEPT ![u] = Tail(@)]
             /\ IF ~message.has_text
                THEN /\ is_processing' =
                            ClearProcessing([is_processing EXCEPT ![u] = TRUE], u)
                     /\ UNCHANGED <<procs, gen_calls>>
                ELSE /\ is_processing' = [is_processing EXCEPT ![u] = TRUE]
                     /\ gen_calls' = [gen_calls EXCEPT ![u] =
                            Append(@, [user_id |-> u, input |-> <<message>>,
                                       outcome |-> "running", chunks |-> 0])]
                     /\ procs' = procs \cup
                            {[user |-> u, message |-> message, chunks |-> 0,
                              pc |-> "gen", to_send |-> <<>>,
                              call |-> Len(gen_calls[u]) + 1,
                              out_before |-> outgoing[u]]}

\* _handle_activation(event), run by the scheduler at or after the run date
handle_activation(j) ==
    /\ j \in jobs
    /\ j.run_date <= now
    /\ jobs' = jobs \ {j}
    /\ user_order' = get_user_state(user_order, j.user_id)
    /\ process_user_incoming_messages(j.user_id)
    /\ UNCHANGED <<now, app, arrived, interrupted, running, next_sweep, outgoing,
                   last_activation_time, sweep, next_mid, sent>>
    /\ UNCHANGED outside_coordinator

\* The exit of _process_user_incoming_messages through its finally clause:
\* "completed" after the last statement of the try block, otherwise by the
\* exception of the generator ("raised", with the number of chunks read before
\* it) or of a send ("send_failed").
FinishProc(p, outcome) ==
    /\ procs' = procs \ {p}
    /\ is_processing' = ClearProcessing(is_processing, p.user)
    /\ last_activation_time' =
           IF outcome = "completed"
           THEN [last_activation_time EXCEPT ![p.user] = now]
           ELSE last_activation_time
    /\ gen_calls' = [gen_calls EXCEPT ![p.user][p.call] =
           [@ EXCEPT !.outcome = outcome,
                     !.chunks = IF outcome = "raised" THEN p.chunks ELSE 0]]

\* the generator yields one more chunk
GenChunk(p) ==
    /\ p \in procs
    /\ p.pc = "gen"
    /\ p.chunks < MaxChunks
    /\ procs' = (procs \ {p}) \cup {[p EXCEPT !.chunks = @ + 1]}
    /\ UNCHANGED <<now, app, arrived, interrupted, running, next_sweep, jobs, user_order, incoming,
                   outgoing, is_processing, last_activation_time, sweep,
                   next_mid, gen_calls, sent>>
    /\ UNCHANGED outside_coordinator

\* the generator stops yielding without ending its stream
GenStall(p) ==
    /\ p \in procs
    /\ p.pc = "gen"
    /\ procs' = (procs \ {p}) \cup {[p EXCEPT !.pc = "stalled"]}
    /\ UNCHANGED <<now, app, arrived, interrupted, running, next_sweep, jobs, user_order, incoming,
                   outgoing, is_processing, last_activation_time, sweep,
                   next_mid, gen_calls, sent>>
    /\ UNCHANGED outside_coordinator

\* the message of the failed run put back at the head of the queue
IncomingAfterRaise_Requeued(inc, p) ==
    [inc EXCEPT ![p.user] = <<p.message>> \o @]

\* The incoming queue after the generator has raised in run p: there is no
\* except clause, and the message taken from the queue is not put back.
IncomingAfterRaise(inc, p) == inc

\* the generator raises
GenRaise(p) ==
    /\ p \in procs
    /\ p.pc = "gen"
    /\ FinishProc(p, "raised")
    /\ incoming' = IncomingAfterRaise(incoming, p)
    /\ UNCHANGED <<now, app, arrived, interrupted, running, next_sweep, jobs,
                   user_order, outgoing, sweep, next_mid, sent>>
    /\ UNCHANGED outside_coordinator

\* The stream ends: the response is split into n parts, which
\* _schedule_message_sending enqueues with the delays d between them, and the
\* outgoing queue is processed at once.
GenComplete(p, n, d) ==
    /\ p \in procs
    /\ p.pc = "gen"
    /\ LET u == p.user
           parts == ScheduledParts(app, p.message, u, n, d)
           r == process_user_outgoing_queue(outgoing[u] \o parts, now)
       IN  /\ outgoing' = [outgoing EXCEPT ![u] = r.queue]
           /\ IF r.to_send = <<>>
              THEN FinishProc(p, "completed")
              ELSE /\ procs' = (procs \ {p}) \cup
                          {[p EXCEPT !.pc = "send", !.to_send = r.to_send]}
                   /\ UNCHANGED <<is_processing, last_activation_time, gen_calls>>
    /\ UNCHANGED <<now, app, arrived, interrupted, running, next_sweep, jobs,
                   user_order, incoming, sweep, next_mid, sent>>
    /\ UNCHANGED outside_coordinator

\* _send_message returns for the first part taken by the immediate flush
ProcSendOk(p) ==
    /\ p \in procs
    /\ p.pc = "send"
    /\ sent' = [sent EXCEPT ![p.user] =
                    Append(@, [part |-> Head(p.to_send), ok |-> TRUE])]
    /\ IF Tail(p.to_send) = <<>>
       THEN FinishProc(p, "completed")
       ELSE /\ procs' = (procs \ {p}) \cup {[p EXCEPT !.to_send = Tail(@)]}
            /\ UNCHANGED <<is_processing, last_activation_time, gen_calls>>
    /\ UNCHANGED <<now, app, arrived, interrupted, running, next_sweep, jobs,
                   user_order, incoming, outgoing, sweep, next_mid>>
    /\ UNCHANGED outside_coordinator

\* _send_message raises in the immediate flush: the exception leaves
\* _process_user_outgoing_queue and _process_user_incoming_messages
ProcSendFail(p) ==
    /\ p \in procs
    /\ p.pc = "send"
    /\ sent' = [sent EXCEPT ![p.user] =
                    Append(@, [part |-> Head(p.to_send), ok |-> FALSE])]
    /\ FinishProc(p, "send_failed")
    /\ UNCHANGED <<now, app, arrived, interrupted, running, next_sweep, jobs,
                   user_order, incoming, outgoing, sweep, next_mid>>
    /\ UNCHANGED outside_coordinator

\* The sweep goes on after the queue of user_order[i - 1]: the dictionary
\* iterator raises when user_states has grown since the sweep began.
SweepContinue(i) ==
    IF Len(user_order) # sweep.size
    THEN /\ sweep' = [NoSweep EXCEPT !.error = "RuntimeError"]
         /\ UNCHANGED outgoing
    ELSE LET r == SweepFrom(outgoing, user_order, i)
         IN  /\ outgoing' = r.out
             /\ sweep' = IF r.to_send = <<>> THEN NoSweep
                         ELSE [active |-> TRUE, idx |-> r.idx,
                               size |-> sweep.size, to_send |-> r.to_send,
                               error |-> "none"]

\* _process_all_outgoing_queues, run by the interval job
process_all_outgoing_queues ==
    /\ next_sweep >= 0
    /\ now >= next_sweep
    /\ ~sweep.active
    /\ next_sweep' = NextRun(next_sweep, now)
    /\ LET r == SweepFrom(outgoing, user_order, 1)
       IN  /\ outgoing' = r.out
           /\ sweep' = IF r.to_send = <<>> THEN NoSweep
                       ELSE [active |-> TRUE, idx |-> r.idx,
                             size |-> Len(user_order), to_send |-> r.to_send,
                             error |-> "none"]
    /\ UNCHANGED <<now, app, arrived, interrupted, running, jobs, user_order, incoming,
                   is_processing, last_activation_time, procs, next_mid,
                   gen_calls, sent>>
    /\ UNCHANGED outside_coordinator

\* _send_message returns for the first part taken by the sweep
SweepSendOk ==
    /\ sweep.active
    /\ LET part == Head(sweep.to_send)
       IN  sent' = [sent EXCEPT ![part.user_id] =
                        Append(@, [part |-> part, ok |-> TRUE])]
    /\ IF Tail(sweep.to_send) # <<>>
       THEN /\ sweep' = [sweep EXCEPT !.to_send = Tail(@)]
            /\ UNCHANGED outgoing
       ELSE SweepContinue(sweep.idx + 1)
    /\ UNCHANGED <<now, app, arrived, interrupted, running, next_sweep, jobs, user_order, incoming,
                   is_processing, last_activation_time, procs, next_mid,
                   gen_calls>>
    /\ UNCHANGED outside_coordinator

\* _send_message raises in the sweep: the exception ends the job's run
SweepSendFail ==
    /\ sweep.active
    /\ LET part == Head(sweep.to_send)
       IN  sent' = [sent EXCEPT ![part.user_id] =
                        Append(@, [part |-> part, ok |-> FALSE])]
    /\ sweep' = NoSweep
    /\ UNCHANGED <<now, app, arrived, interrupted, running, next_sweep, jobs, user_order, incoming,
                   outgoing, is_processing, last_activation_time, procs,
                   next_mid, gen_calls>>
    /\ UNCHANGED outside_coordinator

\* User ids are interchangeable: the first user ever seen is numbered 1.
Senders == IF user_order = <<>> THEN {1} ELSE Users

Next ==
    \/ Tick
    \/ Start
    \/ Stop
    \/ \E u \in Senders, has_from \in BOOLEAN, has_text \in BOOLEAN :
           handle_incoming_message(u, has_from, has_text)
    \/ \E j \in jobs : handle_activation(j)
    \/ \E p \in procs : GenChunk(p)
    \/ \E p \in procs : GenStall(p)
    \/ \E p \in procs : GenRaise(p)
    \/ \E p \in procs, n \in 0..MaxParts :
           \E d \in [1..(n - 1) -> DelayChoices(app)] : GenComplete(p, n, d)
    \/ \E p \in procs : ProcSendOk(p)
    \/ \E p \in procs : ProcSendFail(p)
    \/ process_all_outgoing_queues
    \/ SweepSendOk
    \/ SweepSendFail

Spec == Init /\ [][Next]_vars

\* Generations end and sends return: a stream that has not stalled completes
\* or raises, and the event loop resumes a run whose send has returned or
\* raised.
Fairness ==
    /\ WF_vars(\E p \in procs : GenRaise(p) \/
                  (\E n \in 0..MaxParts :
                      \E d \in [1..(n - 1) -> DelayChoices(app)] :
                          GenComplete(p, n, d)))
    /\ WF_vars(\E p \in procs : ProcSendOk(p) \/ ProcSendFail(p))

\* The liveness checks start from the configurations with fixed delays.
InitFair == Init /\ app.delay_mode # "random"

FairSpec == InitFair /\ [][Next]_vars /\ Fairness

\* Time passes and the scheduler fires every activation that is pending.
ActivationFairness ==
    /\ WF_vars(Tick)
    /\ WF_vars(\E j \in jobs : handle_activation(j))

\* The coordinator when generations end, sends return and activations fire.
LiveSpec == InitFair /\ [][Next]_vars /\ Fairness /\ ActivationFairness

\* The scheduler runs _handle_activation(event) for a pending activation a
\* further time: the event stays scheduled and fires again.
DuplicateFiring(j) ==
    /\ j \in jobs
    /\ j.run_date <= now
    /\ user_order' = get_user_state(user_order, j.user_id)
    /\ process_user_incoming_messages(j.user_id)
    /\ UNCHANGED <<now, app, arrived, interrupted, running, next_sweep, jobs,
                   outgoing, last_activation_time, sweep, next_mid, sent>>
    /\ UNCHANGED outside_coordinator

NextDup ==
    \/ Next
    \/ \E j \in jobs : DuplicateFiring(j)

\* The coordinator under a scheduler that may fire an activation repeatedly.
SpecDup == InitFair /\ [][NextDup]_vars

\* ------------------------------------------------- prototype coordinator

\* The number of messages in a sequence of batches.
RECURSIVE TotalLen(_)
TotalLen(batches) ==
    IF batches = <<>> THEN 0 ELSE Len(Head(batches)) + TotalLen(Tail(batches))

\* The number of add_input_message calls made so far.
AddedCount == Len(input_messages) + TotalLen(processed)

\* prototype: time passes
ProtoTick ==
    /\ proto_now < ProtoMaxTime
    /\ proto_now' = proto_now + 1
    /\ UNCHANGED <<input_messages, input_jobs, output_jobs, processed, delivered>>
    /\ UNCHANGED outside_prototype

\* prototype: add_input_message(message); the text of the message is its number
add_input_message ==
    /\ AddedCount < ProtoMaxMsgs
    /\ LET input_msg == [message |-> AddedCount + 1, timestamp |-> proto_now]
       IN  /\ input_messages' = Append(input_messages, input_msg)
           /\ input_jobs' = input_jobs \cup
                  {[message |-> input_msg, run_date |-> proto_now + input_buffer]}
    /\ UNCHANGED <<proto_now, output_jobs, processed, delivered>>
    /\ UNCHANGED outside_prototype

\* a message with the same timestamp also counted as newer
check_new_messages_arrived_OrEqual(msgs, timestamp) ==
    \E i \in DOMAIN msgs : msgs[i].timestamp >= timestamp

\* prototype: _check_new_messages_arrived(timestamp)
check_new_messages_arrived(msgs, timestamp) ==
    \E i \in DOMAIN msgs : msgs[i].timestamp > timestamp

\* prototype: _process_messages(messages), called at time t
process_messages(messages, t) ==
    <<[message |-> [text |-> "I see messages", count |-> Len(messages)],
       timestamp |-> t + ResponseDelay]>>
    \o (IF Len(messages) > LotThreshold
        THEN <<[message |-> [text |-> "That's a lot!", count |-> 0],
                timestamp |-> t + LotResponseDelay]>>
        ELSE <<>>)

\* prototype: handle_input_message(message), run by the scheduler at or after
\* the run date of its job
handle_input_message(j) ==
    /\ j \in input_jobs
    /\ j.run_date <= proto_now
    /\ input_jobs' = input_jobs \ {j}
    /\ IF check_new_messages_arrived(input_messages, j.message.timestamp)
       THEN UNCHANGED <<input_messages, output_jobs, processed>>
       ELSE LET to_process == input_messages
                responses == process_messages(to_process, proto_now)
            IN  /\ input_messages' = <<>>
                /\ processed' = Append(processed, to_process)
                /\ output_jobs' = output_jobs \cup
                       {[message |-> responses[i].message,
                         run_date |-> responses[i].timestamp,
                         id |-> <<Len(processed) + 1, i>>] :
                            i \in DOMAIN responses}
    /\ UNCHANGED <<proto_now, delivered>>
    /\ UNCHANGED outside_prototype

\* prototype: handle_output_message(message), run by the scheduler at or after
\* the run date of its job
handle_output_message(j) ==
    /\ j \in output_jobs
    /\ j.run_date <= proto_now
    /\ output_jobs' = output_jobs \ {j}
    /\ delivered' = Append(delivered, j.message)
    /\ UNCHANGED <<proto_now, input_messages, input_jobs, processed>>
    /\ UNCHANGED outside_prototype

NextProto ==
    \/ ProtoTick
    \/ add_input_message
    \/ \E j \in input_jobs : handle_input_message(j)
    \/ \E j \in output_jobs : handle_output_message(j)

\* The prototype is checked beside a coordinator that stays as constructed.
InitProto == Init /\ app.delay_mode = "none"

SpecProto == InitProto /\ [][NextProto]_proto_vars

\* ----------------------------------------------- delivery of a response

\* The message a response is delivered for.
DeliveryMessage ==
    [message_id |-> 1, from_user |-> 1, chat_id |-> 1, has_text |-> TRUE,
     date |-> 0]

\* the wait before the first part left out
FirstSleep_Skipped(cfg) == 0

\* App.send_messages: the argument of the sleep before the first part.
FirstSleep(cfg) == cfg.delay_before_first_message

\* App.send_messages: the argument of the sleep after a part, in the branch
\* of delay mode mode.
AppDelayChoices(cfg, mode) ==
    IF mode = "simple" THEN {cfg.delay_simple}
    ELSE cfg.delay_random_min .. cfg.delay_random_max

\* A sleep of App.send_messages, made under typing_status.
SleepEvent(d) == [kind |-> "sleep", part |-> 0, method |-> "typing",
                  delay |-> d, at |-> now]

\* every part sent with answer_safe
SendEvent_AlwaysAnswer(cfg, i) ==
    [kind |-> "send", part |-> i, method |-> "answer", delay |-> 0, at |-> now]

\* A part sent by App.send_messages with reply_safe or answer_safe.
SendEvent(cfg, i) ==
    [kind |-> "send", part |-> i,
     method |-> IF cfg.reply_mode = "reply" THEN "reply" ELSE "answer",
     delay |-> 0, at |-> now]

\* App.send_messages(messages, user_message) with n parts, up to its first
\* suspension point: the branch is chosen by the delay mode at the call, and a
\* mode without a branch raises NotImplementedError before anything is sent
send_messages_begin(n) ==
    /\ send_call.pc = "idle"
    /\ CASE app.delay_mode = "none" ->
                /\ send_call' = [pc |-> IF n = 0 THEN "done" ELSE "send",
                                 n |-> n, i |-> 1, wake |-> 0, started |-> now,
                                 mode |-> app.delay_mode, error |-> "none"]
                /\ UNCHANGED app_log
         [] app.delay_mode \in {"simple", "random"} ->
                /\ send_call' = [pc |-> "sleep_first", n |-> n, i |-> 0,
                                 wake |-> now + FirstSleep(app),
                                 started |-> now, mode |-> app.delay_mode,
                                 error |-> "none"]
                /\ app_log' = Append(app_log, SleepEvent(FirstSleep(app)))
         [] OTHER ->
                /\ send_call' = [pc |-> "raised", n |-> n, i |-> 0, wake |-> 0,
                                 started |-> now, mode |-> app.delay_mode,
                                 error |-> "NotImplementedError"]
                /\ UNCHANGED app_log

\* the call of App.send_messages with n parts
send_messages(n) ==
    /\ send_messages_begin(n)
    /\ UNCHANGED planned
    /\ UNCHANGED outside_delivery

\* App.send_messages: asyncio.sleep returns, at or after the time slept for
AppWake ==
    /\ send_call.pc \in {"sleep_first", "sleep_after"}
    /\ now >= send_call.wake
    /\ send_call' =
           IF send_call.i < send_call.n
           THEN [send_call EXCEPT !.pc = "send", !.i = @ + 1]
           ELSE [send_call EXCEPT !.pc = "done"]
    /\ UNCHANGED <<app_log, planned>>
    /\ UNCHANGED outside_delivery

\* App.send_messages: reply_safe or answer_safe returns for part i; in the
\* modes with delays the sleep after the part begins
AppSend(d) ==
    /\ send_call.pc = "send"
    /\ IF send_call.mode = "none"
       THEN /\ d = 0
            /\ app_log' = Append(app_log, SendEvent(app, send_call.i))
            /\ send_call' =
                   IF send_call.i < send_call.n
                   THEN [send_call EXCEPT !.i = @ + 1]
                   ELSE [send_call EXCEPT !.pc = "done"]
       ELSE /\ d \in AppDelayChoices(app, send_call.mode)
            /\ app_log' = Append(Append(app_log, SendEvent(app, send_call.i)),
                                 SleepEvent(d))
            /\ send_call' = [send_call EXCEPT !.pc = "sleep_after",
                                              !.wake = now + d]
    /\ UNCHANGED planned
    /\ UNCHANGED outside_delivery

\* _schedule_message_sending(messages, original_message, user_id) for the same
\* response of n parts: the parts it puts into the outgoing queue
schedule_message_sending(n, d) ==
    /\ planned = NoPlan
    /\ planned' = [at |-> now,
                   parts |-> ScheduledParts(app, DeliveryMessage, 1, n, d)]
    /\ UNCHANGED <<send_call, app_log>>
    /\ UNCHANGED outside_delivery

NextDelivery ==
    \/ Tick
    \/ \E n \in 0..MaxParts : send_messages(n)
    \/ AppWake
    \/ \E d \in 0..MaxDelay : AppSend(d)
    \/ \E n \in 0..MaxParts :
           \E d \in [1..(n - 1) -> DelayChoices(app)] :
               schedule_message_sending(n, d)

InitDelivery ==
    /\ CoordInitWith(DeliveryConfigs)
    /\ ProtoInit /\ DeliveryInit /\ SplitInit /\ HandlerInit

SpecDelivery == InitDelivery /\ [][NextDelivery]_<<now, delivery_vars>>

\* ------------------------------------------------------- split_message

\* The newline character and any other character.
NL == "NL"
Ch == "a"

\* The separator "\n\n".
Sep == <<NL, NL>>

\* The text of n characters other than the newline.
Chars(n) == [i \in 1..n |-> Ch]

\* The texts of at most MaxText characters.
Texts == UNION {[1..k -> {Ch, NL}] : k \in 0..MaxText}

\* The text of test_split_message_simple_improved_mode: segments of 12, 12, 80
\* and 12 characters, and its minimum length.
ExampleText ==
    Chars(12) \o Sep \o Chars(12) \o Sep \o Chars(80) \o Sep \o Chars(12)

ExampleMin == 20

\* The values of SplitterMode.
SplitterModes ==
    {"none", "simple", "simple_improved", "markdown", "structured", "multi_query"}

\* The positions at which the separator begins in text t.
SepStarts(t) == {i \in 1..(Len(t) - 1) : t[i] = NL /\ t[i + 1] = NL}

\* message.split("\n\n"): the separators are found from left to right without
\* overlap, and empty segments are kept.
RECURSIVE str_split(_)
str_split(t) ==
    IF SepStarts(t) = {} THEN <<t>>
    ELSE LET i == CHOOSE k \in SepStarts(t) : \A m \in SepStarts(t) : k <= m
         IN  <<SubSeq(t, 1, i - 1)>> \o str_split(SubSeq(t, i + 2, Len(t)))

\* the accumulator closed when its length reaches the minimum
TooShort_Strict(current_message, min) == Len(current_message) < min

\* the accumulator closed as soon as it holds a segment
TooShort_Never(current_message, min) == FALSE

\* the accumulator kept open one character longer
TooShort_Lenient(current_message, min) == Len(current_message) <= min + 1

\* len(current_message) <= self.config.splitter_min_message_length
TooShort(current_message, min) == Len(current_message) <= min

\* The loop of _split_message_simple_improved over the segments that remain,
\* and the statements after it.
RECURSIVE improved_loop(_, _, _, _)
improved_loop(parts, messages, current_message, min) ==
    IF parts = <<>>
    THEN IF current_message # <<>>
         THEN Append(messages, current_message) ELSE messages
    ELSE LET part == Head(parts)
         IN  IF current_message = <<>>
             THEN improved_loop(Tail(parts), messages, part, min)
             ELSE IF TooShort(current_message, min)
             THEN improved_loop(Tail(parts), messages,
                                current_message \o Sep \o part, min)
             ELSE improved_loop(Tail(parts), Append(messages, current_message),
                                part, min)

\* _split_message_simple_improved(message)
split_message_simple_improved(message, min) ==
    improved_loop(str_split(message), <<>>, <<>>, min)

\* every mode splits at the separators and leaves the empty segments out
split_message_result_DropEmpty(message, mode, min) ==
    [returned |-> TRUE,
     parts |-> SelectSeq(str_split(message), LAMBDA p : p # <<>>),
     error |-> "none"]

\* App.split_message(message) under a splitter mode and minimum length
split_message_result(message, mode, min) ==
    CASE mode = "none" ->
             [returned |-> TRUE, parts |-> <<message>>, error |-> "none"]
      [] mode = "simple" ->
             [returned |-> TRUE, parts |-> str_split(message), error |-> "none"]
      [] mode = "simple_improved" ->
             [returned |-> TRUE,
              parts |-> split_message_simple_improved(message, min),
              error |-> "none"]
      [] mode \in {"markdown", "structured"} ->
             [returned |-> FALSE, parts |-> <<>>, error |-> "NotImplementedError"]
      [] OTHER ->
             [returned |-> FALSE, parts |-> <<>>, error |-> "ValueError"]

\* the call of App.split_message
split_message ==
    /\ split_out = NoResult
    /\ split_out' = split_message_result(split_in.text, split_in.mode, split_in.min)
    /\ UNCHANGED split_in
    /\ UNCHANGED outside_split

NextSplit == split_message

\* The inputs of split_message: every short text and the text of the test,
\* every mode, and the small minimum lengths and that of the test.
InitSplit ==
    /\ CoordInitWith({c \in Configs : c.delay_mode = "none"})
    /\ ProtoInit
    /\ DeliveryInit
    /\ HandlerInit
    /\ split_in \in [text : Texts \cup {ExampleText}, mode : SplitterModes,
                      min : (0..MaxMin) \cup {ExampleMin}]
    /\ split_out = NoResult

SpecSplit == InitSplit /\ [][NextSplit]_split_vars

\* ------------------------------------------- calls under every mode

\* A string that is no value of SplitterMode, assigned to the configuration
\* directly as test_split_message_invalid_mode does.
InvalidMode == "invalid"

\* The texts split in the study of the modes.
CallTexts == {<<>>, <<Ch>>, <<Ch, NL, NL, Ch>>}

\* split_message and send_messages called on an App under every splitter
\* mode and delay mode, the unsupported ones included.
InitCalls ==
    /\ CoordInitWith(DeliveryConfigs)
    /\ ProtoInit
    /\ DeliveryInit
    /\ HandlerInit
    /\ split_in \in [text : CallTexts,
                      mode : SplitterModes \cup {InvalidMode},
                      min : {DefaultMin}]
    /\ split_out = NoResult

NextCalls ==
    \/ Tick
    \/ split_message
    \/ \E n \in 0..MaxParts : send_messages(n)
    \/ AppWake
    \/ \E d \in 0..MaxDelay : AppSend(d)

SpecCalls == InitCalls /\ [][NextCalls]_<<now, delivery_vars, split_vars>>

\* ---------------------------------------------------- settings of App

\* Python's None.
None == "None"

\* The delays a property is set to: negative, zero and positive ones.
ConfigDelays == (0 - 1)..MaxDelay

\* The list supported_models.
supported_models ==
    {"claude-3.5-haiku", "claude-3.5-sonnet", "claude-3.7", "gpt-4o-mini",
     "gpt-4.1-nano", "gpt-4o", "o3", "gemini-2.5-flash", "gemini-2.5-pro",
     "grok-3-mini", "grok-3"}

\* The model names assigned: a supported one, the default of AppConfig and a
\* name that is neither.
ModelNames == {"gpt-4o", DefaultModel, "invalid-model"}

\* A Python object: its type and its value. A member of an enum has the
\* enum as its type and the member's value as its value.
Object(type, value) == [type |-> type, value |-> value]

\* The properties of App that have a setter.
Properties ==
    {"model", "splitter_mode", "delay_mode", "reply_mode",
     "delay_between_messages", "delay_before_first_message",
     "delay_random_min", "delay_random_max"}

\* The enum of a mode property and the values of that enum.
EnumOf(property) ==
    CASE property = "splitter_mode" ->
             [name |-> "SplitterMode", values |-> SplitterModes]
      [] property = "delay_mode" ->
             [name |-> "DelayMode", values |-> DelayModes]
      [] property = "reply_mode" ->
             [name |-> "ReplyMode", values |-> ReplyModes]

\* The objects a property is set to: for the model a name, for a mode the
\* members of its enum, their string values and a string that is none of
\* them, for a delay any number.
ValuesOf(property) ==
    CASE property = "model" -> {Object("str", m) : m \in ModelNames}
      [] property \in {"splitter_mode", "delay_mode", "reply_mode"} ->
             LET enum == EnumOf(property)
             IN  {Object("str", v) : v \in enum.values \cup {InvalidMode}}
                     \cup {Object(enum.name, v) : v \in enum.values}
      [] OTHER -> {Object("float", d) : d \in ConfigDelays}

EnumCall_Unchecked(enum, value) ==
    [member |-> Object(enum.name, value.value), error |-> "none"]

\* The call enum(value) of an Enum class: the member with that value, and
\* ValueError when no member has it.
EnumCall(enum, value) ==
    IF value.value \in enum.values
    THEN [member |-> Object(enum.name, value.value), error |-> "none"]
    ELSE [member |-> None, error |-> "ValueError"]

\* The setter of a mode: a str is converted with the enum, any other object
\* is taken as it is given.
mode_setter(enum, value) ==
    IF value.type = "str"
    THEN EnumCall(enum, value)
    ELSE [member |-> value, error |-> "none"]

\* The assignment app.<property> = value on configuration cfg: the
\* configuration after it, the object stored in it and the error raised. The
\* setter of the model raises ValueError for a name outside supported_models;
\* the setter of a mode converts a string with the enum, which raises
\* ValueError for a string that is no value of it; the setter of a delay
\* stores what it is given. A mode field of the configuration holds the value
\* of the member stored in it.
set_property(cfg, property, value) ==
    CASE property = "model" ->
             IF value.value \in supported_models
             THEN [config |-> [cfg EXCEPT !.model = value.value],
                   stored |-> value, error |-> "none"]
             ELSE [config |-> cfg, stored |-> None, error |-> "ValueError"]
      [] property \in {"splitter_mode", "delay_mode", "reply_mode"} ->
             LET mode == mode_setter(EnumOf(property), value)
             IN  IF mode.error # "none"
                 THEN [config |-> cfg, stored |-> None, error |-> mode.error]
                 ELSE [config |->
                           CASE property = "splitter_mode" ->
                                    [cfg EXCEPT !.splitter_mode =
                                                    mode.member.value]
                             [] property = "delay_mode" ->
                                    [cfg EXCEPT !.delay_mode =
                                                    mode.member.value]
                             [] property = "reply_mode" ->
                                    [cfg EXCEPT !.reply_mode =
                                                    mode.member.value],
                       stored |-> mode.member, error |-> "none"]
      [] property = "delay_between_messages" ->
             [config |-> [cfg EXCEPT !.delay_simple = value.value],
              stored |-> value, error |-> "none"]
      [] property = "delay_before_first_message" ->
             [config |-> [cfg EXCEPT !.delay_before_first_message =
                                         value.value],
              stored |-> value, error |-> "none"]
      [] property = "delay_random_min" ->
             [config |-> [cfg EXCEPT !.delay_random_min = value.value],
              stored |-> value, error |-> "none"]
      [] property = "delay_random_max" ->
             [config |-> [cfg EXCEPT !.delay_random_max = value.value],
              stored |-> value, error |-> "none"]

\* The getter of a property: what app.<property> reads from configuration
\* cfg.
get_property(cfg, property) ==
    CASE property = "model" -> cfg.model
      [] property = "splitter_mode" -> cfg.splitter_mode
      [] property = "delay_mode" -> cfg.delay_mode
      [] property = "reply_mode" -> cfg.reply_mode
      [] property = "delay_between_messages" -> cfg.delay_simple
      [] property = "delay_before_first_message" ->
             cfg.delay_before_first_message
      [] property = "delay_random_min" -> cfg.delay_random_min
      [] property = "delay_random_max" -> cfg.delay_random_max

\* The variables an assignment to a property of App does not touch.
outside_settings ==
    <<now, running, next_sweep, jobs, user_order, incoming, outgoing,
      is_processing, last_activation_time, procs, sweep, next_mid, gen_calls,
      sent, arrived, interrupted, proto_vars, delivery_vars, split_vars>>

\* app.<property> = value
setattr(property, value) ==
    /\ LET r == set_property(app, property, value)
       IN  /\ app' = r.config
           /\ last_set' = [property |-> property, value |-> value,
                           stored |-> r.stored, error |-> r.error]
    /\ UNCHANGED chat
    /\ UNCHANGED outside_settings

NextConfig ==
    \E property \in Properties :
        \E value \in ValuesOf(property) : setattr(property, value)

\* The configurations an App starts with in the study of its setters: every
\* mode, and delays that are not negative with delay_random_min no larger than
\* delay_random_max.
StartConfigs ==
    {c \in [delay_mode : DelayModes,
            delay_before_first_message : 0..MaxDelay,
            delay_simple : 0..MaxDelay,
            delay_random_min : 0..MaxDelay,
            delay_random_max : 0..MaxDelay,
            reply_mode : ReplyModes,
            splitter_mode : SplitterModes,
            splitter_min_message_length : {DefaultMin},
            model : {DefaultModel}] :
        c.delay_random_min <= c.delay_random_max}

InitConfig ==
    /\ CoordInitWith(StartConfigs)
    /\ ProtoInit /\ DeliveryInit /\ SplitInit /\ HandlerInit

SpecConfig == InitConfig /\ [][NextConfig]_<<app, last_set>>

\* ------------------------------------------------------- chat_handler

MaxChatChunks == 2

\* The chunks the response stream yields.
ChatChunks == {<<Ch, Ch>>, <<NL, NL, Ch>>}

\* The messages the router receives: in a private chat with text, with a
\* caption (and then an attachment), with both or with neither, and in a group
\* with text.
ChatMessages ==
    {m \in {[message_id |-> 1, from_user |-> 1, chat_type |-> ct, text |-> t,
             caption |-> c,
             attachments |-> IF c = None THEN <<>> ELSE <<"photo">>] :
                ct \in {"private", "group"}, t \in {None, "text"},
                c \in {None, "caption"}} :
        m.chat_type = "group" => m.text # None /\ m.caption = None}

\* The filter of chat_handler: (F.text | F.caption) and chat type private.
chat_filter(m) ==
    /\ m.text # None \/ m.caption # None
    /\ m.chat_type = "private"

\* the caption preferred to the text
input_text_CaptionFirst(m) == IF m.caption # None THEN m.caption ELSE m.text

\* message.text or message.caption
input_text(m) == IF m.text # None THEN m.text ELSE m.caption

\* The keys of split_instructions.
SplitInstructionModes ==
    {"none", "simple", "simple_improved", "markdown", "structured"}

\* The variables chat_handler does not touch before it calls send_messages.
outside_chat == <<vars, proto_vars, delivery_vars, split_vars, last_set>>

\* The router receives message m, which the filter of chat_handler lets
\* through: the handler runs up to its first suspension point inside the
\* response stream. app.generate_response is called once; it reads
\* App.system_message, which raises KeyError under a splitter mode that has no
\* entry in split_instructions.
chat_handler(m) ==
    /\ chat.pc = "idle"
    /\ chat_filter(m)
    /\ chat' =
           [NoChat EXCEPT
               !.message = m,
               !.generate_calls =
                   <<[input_text |-> input_text(m), user_id |-> m.from_user,
                      attachments |-> m.attachments]>>,
               !.pc = IF app.splitter_mode \in SplitInstructionModes
                      THEN "streaming" ELSE "raised",
               !.error = IF app.splitter_mode \in SplitInstructionModes
                         THEN "none" ELSE "KeyError"]
    /\ UNCHANGED outside_chat

\* The router receives message m, which the filter of chat_handler does not
\* let through: the handler is not called.
chat_filtered(m) ==
    /\ chat.pc = "idle"
    /\ ~chat_filter(m)
    /\ chat' = [NoChat EXCEPT !.message = m, !.pc = "filtered"]
    /\ UNCHANGED outside_chat

\* chat_handler: the stream yields chunk c, and result += chunk
ChatChunk(c) ==
    /\ chat.pc = "streaming"
    /\ Len(chat.chunks) < MaxChatChunks
    /\ chat' = [chat EXCEPT !.chunks = Append(@, c), !.result = @ \o c]
    /\ UNCHANGED outside_chat

\* chat_handler: the stream raises
ChatStreamRaise ==
    /\ chat.pc = "streaming"
    /\ chat' = [chat EXCEPT !.pc = "raised", !.error = "StreamError"]
    /\ UNCHANGED outside_chat

\* chat_handler: the stream ends; the handler calls app.split_message(result)
\* and, when that returns, app.send_messages(messages, message), which runs up
\* to its first suspension point
ChatStreamEnd ==
    /\ chat.pc = "streaming"
    /\ LET r == split_message_result(chat.result, app.splitter_mode,
                                     app.splitter_min_message_length)
       IN  IF r.returned
           THEN /\ chat' = [chat EXCEPT
                               !.pc = "sending",
                               !.split_calls = Append(@, chat.result),
                               !.send_calls =
                                   Append(@, [messages |-> r.parts,
                                              user_message |-> chat.message])]
                /\ send_messages_begin(Len(r.parts))
           ELSE /\ chat' = [chat EXCEPT
                               !.pc = "raised",
                               !.split_calls = Append(@, chat.result),
                               !.error = r.error]
                /\ UNCHANGED <<send_call, app_log>>
    /\ UNCHANGED <<planned, vars, proto_vars, split_vars, last_set>>

\* set_splitter_mode_handler: the user picks one of the offered values of
\* SplitterMode, or nothing
set_splitter_mode_handler(response) ==
    /\ app' = IF response = None THEN app
              ELSE set_property(app, "splitter_mode",
                                Object("str", response)).config
    /\ UNCHANGED <<chat, last_set>>
    /\ UNCHANGED outside_settings

\* set_delay_mode_handler: the user picks one of the offered values of
\* DelayMode, or nothing
set_delay_mode_handler(response) ==
    /\ app' = IF response = None THEN app
              ELSE set_property(app, "delay_mode",
                                Object("str", response)).config
    /\ UNCHANGED <<chat, last_set>>
    /\ UNCHANGED outside_settings

NextChat ==
    \/ Tick
    \/ \E m \in ChatMessages : chat_handler(m)
    \/ \E m \in ChatMessages : chat_filtered(m)
    \/ \E c \in ChatChunks : ChatChunk(c)
    \/ ChatStreamRaise
    \/ ChatStreamEnd
    \/ AppWake
    \/ \E d \in 0..MaxDelay : AppSend(d)
    \/ \E response \in SplitterModes \cup {None} :
           set_splitter_mode_handler(response)
    \/ \E response \in DelayModes \cup {None} :
           set_delay_mode_handler(response)

\* The App as constructed by default: mode simple_improved, random delays,
\* no delay before the first part, reply mode answer.
InitChat ==
    /\ CoordInitWith({c \in DeliveryConfigs :
                          /\ c.delay_mode = "random"
                          /\ c.delay_before_first_message = 0
                          /\ c.reply_mode = "answer"})
    /\ ProtoInit /\ DeliveryInit /\ SplitInit /\ HandlerInit

SpecChat == InitChat /\ [][NextChat]_<<now, app, delivery_vars, chat>>

\* ------------------------------------------------------------- claims

Last(s) == s[Len(s)]

\* inp is a maximal run of the messages a (in arrival order) in which every
\* message arrives less than one debounce window after the one before it.
IsWholeBurst(a, inp) ==
    /\ inp # <<>>
    /\ \E i \in 1..Len(a) :
           LET k == i + Len(inp) - 1
           IN  /\ k <= Len(a)
               /\ SubSeq(a, i, k) = inp
               /\ i = 1 \/ a[i].date - a[i - 1].date >= ActivationDelay
               /\ k = Len(a) \/ a[k + 1].date - a[k].date >= ActivationDelay

\* C1: every generation call is made for a whole burst of messages that each
\* arrived within the debounce window of the previous one: its input is the
\* batch of all messages of the burst in arrival order, and it is made no
\* earlier than one window after the last of them.
C1_DebounceCoalescing ==
    [][\A u \in Users :
          Len(gen_calls'[u]) > Len(gen_calls[u]) =>
              LET c == Last(gen_calls'[u])
              IN  /\ IsWholeBurst(arrived[u], c.input)
                  /\ now >= Last(c.input).date + ActivationDelay]_vars

\* C2: at most one generation pipeline is in flight per user, and while one
\* is in flight the user's is_processing flag is set.
C2_MutualExclusion ==
    \A u \in Users :
        /\ Cardinality(ProcsOf(u)) <= 1
        /\ ProcsOf(u) # {} => is_processing[u]

JobsOf(u) == {j \in jobs : j.user_id = u /\ j.event_type = "process_incoming"}

\* Both activations of user u have fired for two text messages that arrived
\* at different times, and only one generation was started, which is still in
\* flight: the other activation found the user busy.
BusyActivationFired(u) ==
    /\ Len(arrived[u]) = 2
    /\ arrived[u][1].date # arrived[u][2].date
    /\ \A i \in 1..2 : arrived[u][i].has_text
    /\ JobsOf(u) = {}
    /\ Len(incoming[u]) = 1
    /\ Len(gen_calls[u]) = 1
    /\ ProcsOf(u) # {}

\* a second activation has fired while the first run is sending its parts
C2_Witness ==
    \E p \in procs : p.pc = "send" /\ BusyActivationFired(p.user)

\* The activation j fires for a user who is not busy and whose oldest queued
\* message has no text.
NoTextActivation(j) ==
    /\ handle_activation(j)
    /\ ~is_processing[j.user_id]
    /\ incoming[j.user_id] # <<>>
    /\ ~Head(incoming[j.user_id]).has_text

\* The run p of _process_user_incoming_messages ends in this step.
Exits(p) == \A q \in procs' : q.message # p.message

\* The contents of the parts in a queue.
Contents(q) == {q[i].content : i \in DOMAIN q}

\* C3 as stated: after a run of _process_user_incoming_messages exits, by any
\* route, is_processing is false, and when the generator raises the outgoing
\* queue is exactly what it was before the activation.
C3_ExitAsStated ==
    [][/\ \A p \in procs :
              /\ Exits(p) => ~is_processing'[p.user]
              /\ GenRaise(p) => outgoing'[p.user] = p.out_before
       /\ \A j \in jobs :
              NoTextActivation(j) => ~is_processing'[j.user_id]]_vars

\* C3 amended: after a run of _process_user_incoming_messages exits, by any
\* route, is_processing is false, and when the generator raises the run has
\* put nothing into the outgoing queue: the raise leaves the queue as it is and
\* every part in it was there before the activation.
C3_ExitClearsFlag ==
    [][/\ \A p \in procs :
              /\ Exits(p) => ~is_processing'[p.user]
              /\ GenRaise(p) =>
                    /\ outgoing'[p.user] = outgoing[p.user]
                    /\ Contents(outgoing'[p.user]) \subseteq Contents(p.out_before)
       /\ \A j \in jobs :
              NoTextActivation(j) => ~is_processing'[j.user_id]]_vars

\* the generator has raised while parts of an earlier response were queued
C3_Witness ==
    \E u \in Users :
        /\ gen_calls[u] # <<>>
        /\ Last(gen_calls[u]).outcome = "raised"
        /\ ~is_processing[u]
        /\ outgoing[u] # <<>>

\* q should be sent before p: it is planned earlier, or it is an earlier part
\* of the same response.
Before(q, p) ==
    \/ q.timestamp < p.timestamp
    \/ q.content[1] = p.content[1] /\ q.content[2] < p.content[2]

\* C4: a part is handed to the sender only when no other pending part of the
\* same user is planned earlier or precedes it in the split of its response.
C4_SendOrder ==
    [][\A u \in Users :
          Len(sent'[u]) > Len(sent[u]) =>
              LET p == Last(sent'[u]).part
              IN  \A q \in Pending(u) : ~Before(q, p)]_vars

\* C5: every outgoing queue is ordered by ascending planned send time.
C5_QueueSorted ==
    \A u \in Users :
        \A i, k \in DOMAIN outgoing[u] :
            i < k => outgoing[u][i].timestamp <= outgoing[u][k].timestamp


C7_BusyActivationNoOp ==
    [][\A j \in jobs :
          (handle_activation(j) /\ ProcsOf(j.user_id) # {}) =>
              UNCHANGED <<incoming, outgoing, is_processing, procs,
                          gen_calls>>]_vars

\* an activation has fired during a generation and its message is still queued
C7_Witness ==
    \E p \in procs : p.pc = "gen" /\ BusyActivationFired(p.user)

Stalled(u) == \E p \in ProcsOf(u) : p.pc = "stalled"

Attempted(u) ==
    IF Len(sent'[u]) > Len(sent[u]) THEN {Last(sent'[u]).part} ELSE {}

\* C9: no pending part of a user, whether still queued or already taken from
\* the queue, stops being pending without being handed to the sender, also
\* when the send of another part fails.
C9_NoPartDropped ==
    [][\A u \in Users :
          \A q \in Pending(u) : q \in Pending(u)' \/ q \in Attempted(u)]_vars

\* C10: handle_incoming_message leaves the outgoing queue and the parts taken
\* from it unchanged, and a part that was unsent when a new message of its
\* user arrived stays pending, as planned, until it is handed to the sender.
C10_ContinueDelivery ==
    [][/\ \A u \in Users, f, t \in BOOLEAN :
              handle_incoming_message(u, f, t) =>
                  UNCHANGED <<outgoing, sweep, procs>>
       /\ \A u \in Users :
              \A q \in Pending(u) :
                  q.content \in interrupted =>
                      q \in Pending(u)' \/ q \in Attempted(u)]_vars

\* The parts of a user that were ever planned and are still known: pending or
\* handed to the sender.
AllParts(u) == Pending(u) \cup {sent[u][i].part : i \in DOMAIN sent[u]}

\* q is the part that follows p in the split of one response.
FollowsInSplit(p, q) ==
    q.content[1] = p.content[1] /\ q.content[2] = p.content[2] + 1

\* The gap g between two consecutive planned send times is the one the delay
\* mode of cfg prescribes.
GapAsSpecified(cfg, g) ==
    CASE cfg.delay_mode = "simple" -> g = cfg.delay_simple
      [] cfg.delay_mode = "random" ->
             cfg.delay_random_min <= g /\ g <= cfg.delay_random_max
      [] OTHER -> g = 0

\* C11: the planned send times of consecutive parts of one response differ by
\* delay_simple in delay mode simple, by a value in
\* [delay_random_min, delay_random_max] in mode random, and by 0 otherwise.
C11_PlannedGaps ==
    \A u \in Users :
        \A p, q \in AllParts(u) :
            FollowsInSplit(p, q) => GapAsSpecified(app, q.timestamp - p.timestamp)

\* a response of three parts is planned in mode simple with a positive delay
C11_Witness ==
    /\ app.delay_mode = "simple"
    /\ app.delay_simple > 0
    /\ \E u \in Users :
           \E p, q, r \in Pending(u) :
               /\ FollowsInSplit(p, q) /\ FollowsInSplit(q, r)
               /\ r.timestamp = p.timestamp + 2 * app.delay_simple

\* The stream of the i-th generation call of user u has ended without an
\* exception.
StreamEnded(u, i) ==
    \/ gen_calls[u][i].outcome \in {"completed", "send_failed"}
    \/ \E p \in ProcsOf(u) : p.call = i /\ p.pc = "send"

\* C12: no part of a response is enqueued or sent unless its stream has ended
\* without an exception, and the message of a generation that raised is
\* neither put back into the incoming queue nor passed to the generator again.
C12_RaisedBatchDropped ==
    \A u \in Users : \A i \in DOMAIN gen_calls[u] :
        LET m == gen_calls[u][i].input[1]
        IN  /\ ~StreamEnded(u, i) =>
                   \A q \in AllParts(u) : q.content[1] # m.message_id
            /\ gen_calls[u][i].outcome = "raised" =>
                   /\ m \notin Range(incoming[u])
                   /\ \A k \in DOMAIN gen_calls[u] :
                          k # i => m \notin Range(gen_calls[u][k].input)

\* a generation has raised after a chunk and the next message of the user has
\* been passed to the generator since
C12_Witness ==
    \E u \in Users :
        /\ Len(gen_calls[u]) = 2
        /\ gen_calls[u][1].outcome = "raised"
        /\ gen_calls[u][1].chunks = MaxChunks
        /\ gen_calls[u][2].outcome = "completed"

\* C13: no part is handed to the sender more than once and no incoming message
\* is passed to the generator more than once, also when activations fire
\* repeatedly or late and while the sweep keeps firing.
C13_AtMostOnce ==
    \A u \in Users :
        /\ \A i, k \in DOMAIN sent[u] :
               sent[u][i].part.content = sent[u][k].part.content => i = k
        /\ \A i, k \in DOMAIN gen_calls[u] :
               \A a \in DOMAIN gen_calls[u][i].input,
                  b \in DOMAIN gen_calls[u][k].input :
                   gen_calls[u][i].input[a].message_id
                       = gen_calls[u][k].input[b].message_id
                           => i = k /\ a = b

\* one activation of a user has fired for both of the user's messages and is
\* still scheduled, and parts planned for different times have been sent
C13_Witness ==
    \E u \in Users :
        /\ Len(arrived[u]) = 2
        /\ Len(gen_calls[u]) = 2
        /\ Cardinality(JobsOf(u)) = 1
        /\ \E i, k \in DOMAIN sent[u] :
               sent[u][i].part.timestamp < sent[u][k].part.timestamp

\* C14: when stop() completes on a running coordinator the periodic sweep is
\* cancelled and no activation of any user remains scheduled, so that nothing
\* is left to start a generation or send a part.
C14_StopCancelsAll ==
    [][(running /\ ~running') => (next_sweep' = -1 /\ jobs' = {})]_vars

\* C15: start() on a running coordinator and stop() on a stopped one change
\* nothing, and the periodic sweep job is registered exactly when the
\* coordinator is running.
C15_StartStopIdempotent ==
    /\ [](running <=> next_sweep >= 0)
    /\ [][/\ (Start /\ running) => UNCHANGED vars
          /\ (Stop /\ ~running) => UNCHANGED vars]_vars

\* the coordinator has been started and stopped again while a sweep was sending
C15_Witness ==
    /\ ~running
    /\ next_sweep = -1
    /\ sweep.active

\* The executions of _process_user_outgoing_queue for user u that are
\* suspended inside a send: the immediate flush of a run of
\* _process_user_incoming_messages and the periodic sweep.
DeliveriesInFlight(u) ==
    {p.call : p \in {q \in ProcsOf(u) : q.pc = "send"}}
        \cup (IF sweep.active /\ Head(sweep.to_send).user_id = u
              THEN {0} ELSE {})

\* C16: at most one execution of _process_user_outgoing_queue per user holds
\* dequeued parts at a time: none dequeues or sends while another one is
\* suspended inside a send for that user.
C16_OneDeliveryPerUser ==
    \A u \in Users : Cardinality(DeliveriesInFlight(u)) <= 1

\* C17: when handle_input_message fires for a message and the buffer holds a
\* message with a later timestamp, the buffer stays as it is, nothing is
\* processed and no output job is scheduled; otherwise the whole buffer is
\* processed as one batch and emptied.
C17_DebounceCheck ==
    [][\A j \in input_jobs :
          handle_input_message(j) =>
              IF \E i \in DOMAIN input_messages :
                     input_messages[i].timestamp > j.message.timestamp
              THEN UNCHANGED <<input_messages, output_jobs, processed, delivered>>
              ELSE /\ processed' = Append(processed, input_messages)
                   /\ input_messages' = <<>>
                   /\ output_jobs' # output_jobs]_proto_vars

\* two messages arrived at different times, the activation of the first one
\* was a no-op and that of the second one processed both as one batch
C17_Witness ==
    /\ Len(processed) = 1
    /\ Len(processed[1]) = 2
    /\ processed[1][1].timestamp < processed[1][2].timestamp
    /\ input_jobs = {}
    /\ input_messages = <<>>

\* The first part has been sent by App.send_messages at time t.
FirstSentAt(t) ==
    \E k \in DOMAIN app_log :
        app_log[k].kind = "send" /\ app_log[k].part = 1 /\ app_log[k].at = t

\* The first part of the planned response is planned delay_before_first_message
\* after the time of planning.
FirstPlannedAfterDelay ==
    planned.parts # <<>> =>
        planned.parts[1].timestamp = planned.at + app.delay_before_first_message

\* C18 as stated: in every delay mode the first part is sent by
\* App.send_messages no earlier than delay_before_first_message after the call,
\* and planned by _schedule_message_sending that long after the planning.
C18_FirstDelayEveryMode ==
    /\ \A t \in 0..MaxTime :
           FirstSentAt(t) =>
               t >= send_call.started + app.delay_before_first_message
    /\ FirstPlannedAfterDelay

\* C18 amended: in the delay modes simple and random the first part is sent by
\* App.send_messages no earlier than delay_before_first_message after the
\* call, and in mode none after no sleep at all; _schedule_message_sending
\* plans the first part delay_before_first_message after the planning in every
\* mode.
C18_FirstDelayWhereWaited ==
    /\ \A t \in 0..MaxTime :
           FirstSentAt(t) =>
               IF app.delay_mode = "none"
               THEN \A k \in DOMAIN app_log : app_log[k].kind # "sleep"
               ELSE t >= send_call.started + app.delay_before_first_message
    /\ FirstPlannedAfterDelay

\* a first part has been sent in mode simple after a positive first delay, and
\* a response has been planned
C18_Witness ==
    /\ app.delay_mode = "simple"
    /\ app.delay_before_first_message > 0
    /\ send_call.started > 0
    /\ \E t \in 0..MaxTime : FirstSentAt(t)
    /\ planned.parts # <<>>

\* The greedy reference, part by part: the accumulator starts with the first
\* segment that remains and takes the next one, joined by the separator, while
\* it is no longer than min; an accumulator that is still empty starts with
\* the next segment.
RECURSIVE GreedyTake(_, _, _)
GreedyTake(segs, acc, min) ==
    IF segs = <<>> \/ (acc # <<>> /\ Len(acc) > min)
    THEN [part |-> acc, rest |-> segs]
    ELSE GreedyTake(Tail(segs),
                    IF acc = <<>> THEN Head(segs) ELSE acc \o Sep \o Head(segs),
                    min)

\* The parts of the greedy reference; the final accumulator is emitted when it
\* is not empty.
RECURSIVE GreedyRef(_, _)
GreedyRef(segs, min) ==
    IF segs = <<>> THEN <<>>
    ELSE LET r == GreedyTake(Tail(segs), Head(segs), min)
         IN  (IF r.part # <<>> THEN <<r.part>> ELSE <<>>)
                 \o GreedyRef(r.rest, min)

C20_EmptyInput ==
    (split_out.returned /\ split_in.text = <<>>) => split_out.parts = <<>>

\* The positions of text t at which a separator is matched: in a run of
\* newlines the matches begin at the first, third, fifth, ... newline that
\* has another newline after it.
Matches(t) ==
    {i \in 1..(Len(t) - 1) :
        /\ t[i] = NL /\ t[i + 1] = NL
        /\ LET start == CHOOSE j \in 1..i :
                            /\ \A m \in j..i : t[m] = NL
                            /\ j = 1 \/ t[j - 1] # NL
           IN  (i - start) % 2 = 0}

\* The segments of text t between the matched separators, in order.
Segments(t) ==
    LET M == Matches(t)
        n == Cardinality(M)
        at(k) == CHOOSE m \in M : Cardinality({x \in M : x < m}) = k - 1
    IN  [k \in 1..(n + 1) |->
            SubSeq(t, IF k = 1 THEN 1 ELSE at(k - 1) + 2,
                      IF k = n + 1 THEN Len(t) ELSE at(k) - 1)]

\* The sequence s without the empty elements at its end.
RECURSIVE DropTrailingEmpty(_)
DropTrailingEmpty(s) ==
    IF s # <<>> /\ Last(s) = <<>>
    THEN DropTrailingEmpty(SubSeq(s, 1, Len(s) - 1))
    ELSE s

\* C21: split_message returns one element holding the whole text in mode none,
\* and in mode simple the segments between the double-newline separators, in
\* order, with the empty trailing segments dropped.
C21_BasicModes ==
    split_out.returned =>
        /\ split_in.mode = "none" => split_out.parts = <<split_in.text>>
        /\ split_in.mode = "simple" =>
               split_out.parts =
                   DropTrailingEmpty(Segments(split_in.text))

\* The parts joined with the separator.
RECURSIVE Join(_)
Join(parts) ==
    IF parts = <<>> THEN <<>>
    ELSE IF Len(parts) = 1 THEN parts[1]
    ELSE parts[1] \o Sep \o Join(Tail(parts))

\* Text t ends with the separator.
HasTrailingSep(t) ==
    Len(t) >= 2 /\ t[Len(t) - 1] = NL /\ t[Len(t)] = NL

\* C22: in mode simple, for every text that does not end with the separator,
\* the parts split_message returns joined with the separator are the text.
C22_RoundTrip ==
    (/\ split_out.returned
     /\ split_in.mode = "simple"
     /\ ~HasTrailingSep(split_in.text)) =>
        Join(split_out.parts) = split_in.text

\* a text that begins with the separator and holds another one has been split
\* in mode simple
C22_Witness ==
    /\ split_out.returned
    /\ split_in.mode = "simple"
    /\ ~HasTrailingSep(split_in.text)
    /\ Len(split_out.parts) >= 3
    /\ split_out.parts[1] = <<>>
    /\ Join(split_out.parts) = split_in.text

\* C23: in mode simple_improved every part except possibly the last is at
\* least the minimum length long, for every text and minimum length >= 0.
C23_MinLength ==
    (/\ split_out.returned
     /\ split_in.mode = "simple_improved"
     /\ split_in.min >= 0) =>
        \A i \in 1..(Len(split_out.parts) - 1) :
            Len(split_out.parts[i]) >= split_in.min

\* short segments have been merged into a part that is not the last
C23_Witness ==
    /\ split_out.returned
    /\ split_in.mode = "simple_improved"
    /\ split_in.min >= 1
    /\ Len(split_out.parts) >= 2
    /\ Len(str_split(split_in.text)) > Len(split_out.parts)
    /\ Len(str_split(split_in.text)[1]) <= split_in.min
    /\ Len(split_out.parts[1]) > split_in.min

\* The part that holds segment k is closed by it: the parts of all segments
\* are the parts of the segments up to k followed by the parts of the segments
\* after k.
ClosesPart(segs, k, min) ==
    improved_loop(segs, <<>>, <<>>, min) =
        improved_loop(SubSeq(segs, 1, k), <<>>, <<>>, min)
            \o improved_loop(SubSeq(segs, k + 1, Len(segs)), <<>>, <<>>, min)

\* C24: in mode simple_improved a segment of length >= the minimum length
\* closes the part it belongs to; the segment after it starts a new part.
C24_SegmentAtLeastMinCloses ==
    (split_out.returned /\ split_in.mode = "simple_improved") =>
        LET segs == str_split(split_in.text)
        IN  \A k \in 1..(Len(segs) - 1) :
                Len(segs[k]) >= split_in.min =>
                    ClosesPart(segs, k, split_in.min)

\* C24 as amended: a segment longer than the minimum length closes the part
\* it belongs to; the segment after it starts a new part.
C24_SegmentOverMinCloses ==
    (split_out.returned /\ split_in.mode = "simple_improved") =>
        LET segs == str_split(split_in.text)
        IN  \A k \in 1..(Len(segs) - 1) :
                Len(segs[k]) > split_in.min =>
                    ClosesPart(segs, k, split_in.min)

\* a segment longer than the minimum, appended to a shorter one, is followed
\* by a segment that begins the next part
C24_Witness ==
    /\ split_out.returned
    /\ split_in.mode = "simple_improved"
    /\ LET segs == str_split(split_in.text)
       IN  /\ Len(segs) = 3
           /\ segs[1] # <<>> /\ Len(segs[1]) <= split_in.min
           /\ Len(segs[2]) > split_in.min
           /\ segs[3] # <<>>
           /\ split_out.parts = <<segs[1] \o Sep \o segs[2], segs[3]>>

\* The parts App.send_messages has sent and the sleeps it has made, in order.
Sends == SelectSeq(app_log, LAMBDA e : e.kind = "send")
Sleeps == SelectSeq(app_log, LAMBDA e : e.kind = "sleep")

\* C29: App.send_messages sends the N parts in list order; when it returns in
\* the modes simple and random it has made exactly N+1 sleeps, the first of
\* delay_before_first_message before part 1 and one of the inter-part delay
\* after every part, the last included, each under the typing status; in mode
\* none it makes no sleep.
C29_SendsAndWaits ==
    /\ \A k \in 1..Len(Sends) : Sends[k].part = k
    /\ send_call.pc = "done" =>
           /\ Len(Sends) = send_call.n
           /\ IF send_call.mode = "none"
              THEN Sleeps = <<>>
              ELSE /\ Len(Sleeps) = send_call.n + 1
                   /\ app_log[1].kind = "sleep"
                   /\ app_log[1].delay = app.delay_before_first_message
                   /\ \A k \in 1..send_call.n :
                          /\ app_log[2 * k].kind = "send"
                          /\ app_log[2 * k + 1].kind = "sleep"
                          /\ app_log[2 * k + 1].delay
                                 \in AppDelayChoices(app, send_call.mode)
                   /\ \A k \in 1..Len(Sleeps) : Sleeps[k].method = "typing"

\* a response of three parts has been delivered in mode random after a
\* positive first delay
C29_Witness ==
    /\ send_call.pc = "done"
    /\ send_call.mode = "random"
    /\ send_call.n = MaxParts
    /\ app.delay_before_first_message > 0
    /\ Len(Sleeps) = MaxParts + 1

\* C30: in every delay mode App.send_messages delivers every part with the
\* method reply_mode selects: reply_safe under reply, answer_safe under
\* answer.
C30_ReplyMode ==
    \A k \in 1..Len(Sends) : Sends[k].method = app.reply_mode

\* two parts have been sent as replies in mode none or simple
C30_Witness ==
    /\ app.reply_mode = "reply"
    /\ send_call.mode \in {"none", "simple"}
    /\ send_call.pc = "done"
    /\ Len(Sends) >= 2
    /\ Sends[2].method = "reply"

\* C25: split_message raises NotImplementedError in the modes markdown and
\* structured and ValueError in a mode it does not recognise, and returns no
\* part; send_messages raises NotImplementedError in a delay mode it does not
\* recognise, and sends no message; in the other modes neither raises.
C25_UnsupportedModes ==
    /\ split_out # NoResult =>
           /\ split_out.error =
                  CASE split_in.mode \in {"markdown", "structured"} ->
                           "NotImplementedError"
                    [] split_in.mode \in {"none", "simple", "simple_improved"} ->
                           "none"
                    [] OTHER -> "ValueError"
           /\ split_out.error # "none" =>
                  ~split_out.returned /\ split_out.parts = <<>>
           /\ split_out.error = "none" => split_out.returned
    /\ send_call.pc # "idle" =>
           /\ send_call.error =
                  IF send_call.mode \in {"none", "simple", "random"}
                  THEN "none" ELSE "NotImplementedError"
           /\ send_call.error # "none" =>
                  send_call.pc = "raised" /\ app_log = <<>>
           /\ send_call.error = "none" => send_call.pc # "raised"

\* split_message has raised ValueError in mode multi_query and send_messages
\* NotImplementedError in delay mode structured, called with parts to send
C25_Witness ==
    /\ split_in.mode = "multi_query"
    /\ split_out.error = "ValueError"
    /\ send_call.pc = "raised"
    /\ send_call.mode = "structured"
    /\ send_call.n > 0
    /\ app_log = <<>>

\* C27: in every configuration delay_random_max >= delay_random_min >= 0, and
\* an assignment that would break this is rejected and leaves the
\* configuration as it was.
C27_RandomRangeValid ==
    /\ app.delay_random_max >= app.delay_random_min
    /\ app.delay_random_min >= 0
    /\ last_set.property \in {"delay_random_min", "delay_random_max"} =>
           \/ last_set.error # "none"
           \/ app.delay_random_max >= app.delay_random_min

\* C26: after any sequence of /set_splitter_mode and /set_delay_mode commands
\* in which the user selects offered choices, handling a chat message never
\* fails with an unsupported-mode error.
C26_NoModeErrorPerMessage ==
    /\ chat.error \notin {"NotImplementedError", "ValueError", "KeyError"}
    /\ send_call.error = "none"

\* The chunks concatenated.
RECURSIVE Concat(_)
Concat(chunks) ==
    IF chunks = <<>> THEN <<>> ELSE Head(chunks) \o Concat(Tail(chunks))

\* C28: for every private message with text or caption chat_handler calls the
\* generator exactly once with (text or caption, sender id, attachments); once
\* the stream has ended it has called split_message exactly once, on the
\* concatenation of the chunks; once that has returned it has called
\* send_messages exactly once, with the returned parts and the original
\* message; nothing is split or sent before the stream has ended, and no call
\* is made twice.
C28_HandlerFlow ==
    chat.pc \notin {"idle", "filtered"} =>
        LET m == chat.message
        IN  /\ chat_filter(m)
            /\ chat.generate_calls =
                   <<[input_text |-> IF m.text # None THEN m.text
                                     ELSE m.caption,
                      user_id |-> m.from_user,
                      attachments |-> m.attachments]>>
            /\ (chat.pc = "streaming"
                    \/ chat.error \in {"KeyError", "StreamError"}) =>
                   /\ chat.split_calls = <<>>
                   /\ chat.send_calls = <<>>
                   /\ send_call = NoCall
                   /\ app_log = <<>>
            /\ (chat.pc = "sending"
                    \/ chat.error \in {"NotImplementedError", "ValueError"}) =>
                   chat.split_calls = <<Concat(chat.chunks)>>
            /\ chat.pc = "raised" => chat.send_calls = <<>> /\ app_log = <<>>
            /\ chat.pc = "sending" =>
                   /\ Len(chat.send_calls) = 1
                   /\ chat.send_calls[1].user_message = m
                   /\ \E mode \in {"none", "simple", "simple_improved"} :
                          chat.send_calls[1].messages =
                              split_message_result(
                                  Concat(chat.chunks), mode,
                                  app.splitter_min_message_length).parts
                   /\ send_call.pc # "idle"
                   /\ send_call.n = Len(chat.send_calls[1].messages)

\* a message with text and a caption has been answered: two chunks were
\* streamed, split into two parts, and both parts sent
C28_Witness ==
    /\ chat.pc = "sending"
    /\ chat.message.text # None /\ chat.message.caption # None
    /\ Len(chat.chunks) = 2
    /\ Len(chat.send_calls[1].messages) = 2
    /\ send_call.pc = "done"
    /\ Len(Sends) = 2

\* C40: in mode simple_improved the parts joined with the double-newline
\* separator are the input text, for every text and minimum length, texts
\* with leading, trailing or consecutive separators included.
C40_NoTextLost ==
    (split_out.returned /\ split_in.mode = "simple_improved") =>
        Join(split_out.parts) = split_in.text

\* C38: in the prototype every message added with add_input_message is in the
\* buffer or in exactly one processed batch, never in both or in two, and no
\* processed batch is empty.
C38_ExactlyOneBatch ==
    /\ \A n \in 1..AddedCount :
           Cardinality({i \in DOMAIN input_messages :
                            input_messages[i].message = n})
             + Cardinality({b \in (DOMAIN processed) \X (1..ProtoMaxMsgs) :
                                /\ b[2] \in DOMAIN processed[b[1]]
                                /\ processed[b[1]][b[2]].message = n}) = 1
    /\ \A i \in DOMAIN processed : processed[i] # <<>>

\* C34: a sweep that is suspended inside a send while the first message of a
\* previously unseen user arrives does not fail because user_states grew
\* during the iteration.
C34_SweepSurvivesNewUser == sweep.error # "RuntimeError"

\* An operation of the coordinator is performed for user a in this step: a
\* message of a arrives, an activation of a fires, the generation of a moves
\* or ends, or a send of a part of a returns or raises.
OperationFor(a) ==
    \/ \E f, t \in BOOLEAN : handle_incoming_message(a, f, t)
    \/ \E j \in jobs : j.user_id = a /\ handle_activation(j)
    \/ \E p \in ProcsOf(a) :
           \/ GenChunk(p) \/ GenStall(p) \/ GenRaise(p)
           \/ \E n \in 0..MaxParts :
                  \E d \in [1..(n - 1) -> DelayChoices(app)] :
                      GenComplete(p, n, d)
           \/ ProcSendOk(p) \/ ProcSendFail(p)
    \/ /\ sweep.active
       /\ Head(sweep.to_send).user_id = a
       /\ SweepSendFail \/ (SweepSendOk /\ Tail(sweep.to_send) # <<>>)

\* C32: a user has a UserState exactly when a message of that user has been
\* accepted, and an operation performed for user a leaves the incoming queue,
\* the outgoing queue and the is_processing flag of every other user
\* unchanged.
C32_UserIsolation ==
    /\ [](\A u \in Users : u \in Range(user_order) <=> arrived[u] # <<>>)
    /\ [][\A a, b \in Users :
              (a # b /\ OperationFor(a)) =>
                  /\ incoming'[b] = incoming[b]
                  /\ outgoing'[b] = outgoing[b]
                  /\ is_processing'[b] = is_processing[b]]_vars

\* the generation of one user has ended while the other user, whose state was
\* created later, is in a generation and holds its flag
C32_Witness ==
    /\ user_order = <<1, 2>>
    /\ gen_calls[1] # <<>> /\ gen_calls[1][1].outcome # "running"
    /\ ~is_processing[1]
    /\ is_processing[2]
    /\ ProcsOf(2) # {}

\* C35: every part in an outgoing queue is sent by the first sweep that fires
\* at or after its planned send time: when a sweep has gone through the queue
\* of a user, no part that is due is left in it.
C35_DuePartsSentBySweep ==
    [][process_all_outgoing_queues =>
          LET done == IF sweep'.active THEN sweep'.idx ELSE Len(user_order)
          IN  \A i \in 1..done :
                  \A k \in DOMAIN outgoing'[user_order[i]] :
                      outgoing'[user_order[i]][k].timestamp > now]_vars

\* The k-th accepted message of user u has been passed to the generator.
PassedToGenerator(u, k) ==
    /\ k <= Len(arrived[u])
    /\ \E c \in DOMAIN gen_calls[u] :
           \E i \in DOMAIN gen_calls[u][c].input :
               gen_calls[u][c].input[i].message_id = arrived[u][k].message_id

\* C36: every message with text accepted by handle_incoming_message is
\* eventually passed to the generator, when generations end and activations
\* fire, also when the user sends nothing further.
C36_EveryMessageGenerated ==
    \A u \in Users : \A k \in 1..MaxMsgs :
        (/\ Len(arrived[u]) >= k
         /\ arrived[u][k].has_text
         /\ arrived[u][k].date + ActivationDelay <= MaxTime)
            ~> (PassedToGenerator(u, k) \/ \E v \in Users : Stalled(v))

\* C37: a part is handed to the sender only when its planned send time has
\* come: every part taken from a queue for sending, and every part the sender
\* was called with, has a timestamp that is not after the current time.
C37_NeverEarly ==
    /\ \A p \in procs : \A k \in DOMAIN p.to_send : p.to_send[k].timestamp <= now
    /\ \A k \in DOMAIN sweep.to_send : sweep.to_send[k].timestamp <= now
    /\ \A u \in Users : \A k \in DOMAIN sent[u] : sent[u][k].part.timestamp <= now

\* a part planned for a time after its run ended has been held back by the
\* immediate flush and sent by a sweep at its planned time
C37_Witness ==
    \E u \in Users : \E k \in DOMAIN sent[u] :
        /\ sent[u][k].part.timestamp = now
        /\ sent[u][k].part.content[2] > 1
        /\ ~sweep.active /\ sweep.error = "none"
        /\ ProcsOf(u) = {}
        /\ last_activation_time[u] > 0
        /\ now > last_activation_time[u]

\* The properties whose setter checks what it is given.
CheckedProperties == {"model", "splitter_mode", "delay_mode", "reply_mode"}

\* Object value is acceptable for the checked property: a supported model
\* name, or a member of the property's enum or the string value of one.
Acceptable(property, value) ==
    IF property = "model"
    THEN value.type = "str" /\ value.value \in supported_models
    ELSE /\ value.type \in {"str", EnumOf(property).name}
         /\ value.value \in EnumOf(property).values

\* C31: assigning the model a name outside supported_models, or a mode a
\* string that is no value of its enum, raises an error and leaves the whole
\* configuration unchanged; an enum member or its string value (and a
\* supported model name) is applied, without an error and with no other field
\* touched, and a mode is stored and read back as the member of its enum.
C31_SettersAtomic ==
    [][LET property == last_set'.property
           value == last_set'.value
       IN  property \in CheckedProperties =>
               IF Acceptable(property, value)
               THEN /\ last_set'.error = "none"
                    /\ get_property(app', property) = value.value
                    /\ \A other \in Properties \ {property} :
                           get_property(app', other) = get_property(app, other)
                    /\ app'.splitter_min_message_length =
                           app.splitter_min_message_length
                    /\ property # "model" =>
                           last_set'.stored =
                               Object(EnumOf(property).name, value.value)
               ELSE /\ last_set'.error = "ValueError"
                    /\ app' = app]_<<app, last_set>>

\* An assignment of a string that is no value of the enum was rejected on an
\* App whose model and delay mode had been changed by accepted assignments.
C31_Witness ==
    /\ last_set.property = "splitter_mode"
    /\ last_set.value = Object("str", InvalidMode)
    /\ last_set.error = "ValueError"
    /\ app.model = "gpt-4o"
    /\ app.splitter_mode = "simple"

\* C33: no handler waits inline for a pacing delay: while chat_handler is in
\* its delivery path, App.send_messages is never suspended in a sleep that
\* still has time to run; every wait is a separately scheduled step.
C33_NoInlineWait ==
    ~ /\ chat.pc = "sending"
      /\ send_call.pc \in {"sleep_first", "sleep_after"}
      /\ send_call.wake > now

\* The method _send_message uses for an OutgoingMessage: reply_safe when the
\* message is a reply and carries the id of the message replied to,
\* answer_safe otherwise.
send_method(message) ==
    IF message.is_reply /\ message.reply_to_message_id # 0
    THEN "reply" ELSE "answer"

\* C39: for the same parts, reply mode and delay configuration the
\* coordinator path and App.send_messages emit the same sequence of sends:
\* when App.send_messages has returned, the parts _schedule_message_sending
\* queued for the same response are the parts it sent, in the same order,
\* each sent by _send_message with the method App.send_messages used.
C39_SameSends ==
    (/\ planned # NoPlan
     /\ send_call.pc = "done"
     /\ Len(planned.parts) = send_call.n)
        => /\ Len(Sends) = Len(planned.parts)
           /\ \A k \in 1..Len(Sends) :
                  /\ Sends[k].part = planned.parts[k].content[2]
                  /\ Sends[k].method = send_method(planned.parts[k])

====
